---- MODULE Spec2Model ----
(***************************************************************************)
(* A model of pyfountain: the Fountain screenplay parser (pyfountain.py)   *)
(* and the page count estimator with its line wrapper (pagecount.py).      *)
(*                                                                         *)
(* A Python string is a sequence of one-character strings.  A text is      *)
(* given to the parser as the sequence of its lines, the text split at     *)
(* every "\n" (str.split applied to "\n"), which determines the text.      *)
(* An element's text, which may hold line breaks, is one sequence of       *)
(* characters with "\n" among them.                                        *)
(***************************************************************************)
EXTENDS Integers, Sequences, FiniteSets, TLC

VARIABLES
    source,         \* the argument of FountainDoc(source), as its lines
    pc,             \* where the parser is: start, title, body, done, error
    error,          \* the exception that ended the parse, "" if none
    toplines,       \* _title: top.splitlines()
    tindex,         \* _title: lines of toplines consumed by the for loop
    foundtitle,     \* _title: foundtitle
    openkey,        \* _title: openkey
    openvals,       \* _title: openvals, a reference into heap
    heap,           \* the list objects _title has created, by reference
    title_page,     \* FountainDoc.title_page: <<key, reference>> entries
    lines,          \* _body: contents.splitlines()
    index,          \* _body: index (0-based index of the line in hand)
    nl_before,      \* _body: nl_before
    comment_block,  \* _body: comment_block
    indialog,       \* _body: indialog
    comment_text,   \* _body: comment_text
    text,           \* _body: the local variable text (Unbound before set)
    elements,       \* FountainDoc.elements
    fount,          \* pagecount: fount.elements
    lines_per_page, \* pagecount: lines_per_page
    char_per_inch,  \* pagecount: char_per_inch
    ppc,            \* where pagecount is: idle, loop, done
    eindex,         \* pagecount: elements consumed by the for loop
    pages,          \* pagecount: pages
    plines,         \* pagecount: lines
    prevtype,       \* pagecount: prevtype
    wtext,          \* wrap: text
    wwidth,         \* wrap: linewidth
    wpc,            \* where wrap is: idle, loop, done
    wwords,         \* wrap: the words of text.split() the for loop has left
    wout,           \* wrap: out, and at done the value returned
    wleft           \* wrap: spaceleft

parsevars == <<source, pc, error, toplines, tindex, foundtitle, openkey,
               openvals, heap, title_page, lines, index, nl_before,
               comment_block, indialog, comment_text, text, elements>>
pagevars == <<fount, lines_per_page, char_per_inch, ppc, eindex, pages,
              plines, prevtype>>
wrapvars == <<wtext, wwidth, wpc, wwords, wout, wleft>>
vars == <<parsevars, pagevars, wrapvars>>

-----------------------------------------------------------------------------
(* Python's str operations, on sequences of characters.                    *)

\* str.isspace for the characters of the model: what \s matches
Whitespace == {" ", "\t", "\n"}

UpperCase == <<"A","B","C","D","E","F","G","H","I","J","K","L","M",
               "N","O","P","Q","R","S","T","U","V","W","X","Y","Z">>
LowerCase == <<"a","b","c","d","e","f","g","h","i","j","k","l","m",
               "n","o","p","q","r","s","t","u","v","w","x","y","z">>

\* the regex class [a-z]
IsLower(c) == \E i \in 1..Len(LowerCase) : LowerCase[i] = c

lowerchar(c) ==
    IF \E i \in 1..Len(UpperCase) : UpperCase[i] = c
    THEN LowerCase[CHOOSE i \in 1..Len(UpperCase) : UpperCase[i] = c]
    ELSE c

\* str.lower
lower(s) == [i \in 1..Len(s) |-> lowerchar(s[i])]

AllSpace(s) == \A i \in 1..Len(s) : s[i] \in Whitespace

\* s[i:] of Python for a 1-based first position i
From(s, i) == SubSeq(s, i, Len(s))

\* number of leading whitespace characters
LeadSpace(s) ==
    IF AllSpace(s) THEN Len(s)
    ELSE (CHOOSE i \in 1..Len(s) :
            s[i] \notin Whitespace /\ \A j \in 1..(i-1) : s[j] \in Whitespace) - 1

\* number of trailing whitespace characters
TrailSpace(s) ==
    IF AllSpace(s) THEN Len(s)
    ELSE Len(s) - (CHOOSE i \in 1..Len(s) :
            s[i] \notin Whitespace /\ \A j \in (i+1)..Len(s) : s[j] \in Whitespace)

\* str.lstrip, str.rstrip, str.strip
lstrip(s) == From(s, LeadSpace(s) + 1)
rstrip(s) == SubSeq(s, 1, Len(s) - TrailSpace(s))
strip(s) == rstrip(lstrip(s))

\* str.startswith, str.endswith
startswith(s, p) == Len(s) >= Len(p) /\ SubSeq(s, 1, Len(p)) = p
endswith(s, p) == Len(s) >= Len(p) /\ SubSeq(s, Len(s) - Len(p) + 1, Len(s)) = p

\* str.replace(old, '') for a two-character old: every occurrence, left to
\* right, without overlap
RECURSIVE remove2(_, _)
remove2(s, old) ==
    IF Len(s) < 2 THEN s
    ELSE IF SubSeq(s, 1, 2) = old THEN remove2(From(s, 3), old)
    ELSE <<s[1]>> \o remove2(Tail(s), old)

\* f'{a}\n{b}'
joinnl(a, b) == a \o <<"\n">> \o b

\* range_replace(source, start, end, new), start and end 0-based as in Python
range_replace(s, start, end, new) ==
    SubSeq(s, 1, start) \o new \o From(s, end + 1)

-----------------------------------------------------------------------------
(* The regular expressions of pyfountain.py, each as the predicate (and    *)
(* the groups) re.match computes for it.                                   *)

\* position of the ':' that ends group 1 of INLINE_PATTERN and of
\* DIRECTIVE_PATTERN, "^([^\t\s][^:]+):": the first ':' after s[1], which
\* must leave [^:]+ at least one character; 0 when there is none
KeyColon(s) ==
    IF /\ Len(s) >= 3
       /\ s[1] \notin Whitespace
       /\ \E k \in 3..Len(s) : s[k] = ":" /\ \A j \in 2..(k-1) : s[j] # ":"
    THEN CHOOSE k \in 3..Len(s) : s[k] = ":" /\ \A j \in 2..(k-1) : s[j] # ":"
    ELSE 0

\* re.match(DIRECTIVE_PATTERN, line): "^([^\t\s][^:]+):([\t\s]*$)"
DIRECTIVE_PATTERN(s) == KeyColon(s) > 0 /\ AllSpace(From(s, KeyColon(s) + 1))

\* re.match(INLINE_PATTERN, line): "^([^\t\s][^:]+):\s*([^\t\s].*$)"
INLINE_PATTERN(s) == KeyColon(s) > 0 /\ ~AllSpace(From(s, KeyColon(s) + 1))

\* match[1] of either pattern
KeyGroup(s) == SubSeq(s, 1, KeyColon(s) - 1)

\* match[2] of INLINE_PATTERN: from the first non-blank after the colon
ValueGroup(s) == lstrip(From(s, KeyColon(s) + 1))

\* re.match(r'^\s{2}$', line)
TwoSpaces(s) == Len(s) = 2 /\ AllSpace(s)

\* re.match(r'\*\/\s*$', line): re.match matches at the start of the line only
CloseComment(s) == Len(s) >= 2 /\ s[1] = "*" /\ s[2] = "/" /\ AllSpace(From(s, 3))

\* number of leading characters of s equal to c
RECURSIVE LeadCount(_, _)
LeadCount(s, c) ==
    IF s # <<>> /\ s[1] = c THEN 1 + LeadCount(Tail(s), c) ELSE 0

\* re.match(r'^={3,}\s*$', line)
PageBreakLine(s) == LeadCount(s, "=") >= 3 /\ AllSpace(From(s, LeadCount(s, "=") + 1))

\* len(line.strip()) > 0 and line.strip()[0] == c
FirstNonSpaceIs(s, c) == strip(s) # <<>> /\ strip(s)[1] = c

\* re.match(r'^\s*\[{2}\s*([^\]\n])+\s*\]{2}\s*$', line)
CommentLine(s) ==
    LET t == strip(s) IN
    /\ Len(t) >= 5
    /\ startswith(t, <<"[", "[">>)
    /\ endswith(t, <<"]", "]">>)
    /\ \A i \in 3..(Len(t) - 2) : t[i] \notin {"]", "\n"}

\* re.match(r'^\s*#+', line).span(0)[1]: the leading blanks and the markers
SectionSpan(s) == LeadSpace(s) + LeadCount(lstrip(s), "#")

\* re.match(r'#([^\n#]*?)#\s*$', line): 0 when there is no match, else the
\* position of the closing '#'
SceneNumClose(s) ==
    IF /\ Len(s) >= 2
       /\ s[1] = "#"
       /\ \E k \in 2..Len(s) :
            /\ s[k] = "#"
            /\ \A j \in 2..(k-1) : s[j] \notin {"#", "\n"}
            /\ AllSpace(From(s, k + 1))
    THEN CHOOSE k \in 2..Len(s) :
            /\ s[k] = "#"
            /\ \A j \in 2..(k-1) : s[j] \notin {"#", "\n"}
            /\ AllSpace(From(s, k + 1))
    ELSE 0

\* the alternatives of (INT|EXT|EST|(I|INT)\.?\/(E|EXT)\.?), in lower case
ScenePrefixes ==
    { <<"i","n","t">>, <<"e","x","t">>, <<"e","s","t">> } \cup
    { a \o d1 \o <<"/">> \o b \o d2 :
        a \in { <<"i">>, <<"i","n","t">> }, d1 \in { <<>>, <<".">> },
        b \in { <<"e">>, <<"e","x","t">> }, d2 \in { <<>>, <<".">> } }

\* re.search("^(INT|EXT|EST|(I|INT)\\.?\\/(E|EXT)\\.?)[\\.\\-\\s][^\\n]+$",
\*           line, re.IGNORECASE)
SceneHeadingLine(s) ==
    \E p \in ScenePrefixes :
        /\ Len(s) >= Len(p) + 2
        /\ lower(SubSeq(s, 1, Len(p))) = p
        /\ s[Len(p) + 1] \in {".", "-"} \cup Whitespace

NoLower(s) == \A i \in 1..Len(s) : ~IsLower(s[i])

\* re.match("[^a-z]*TO:$", line)
TransitionTo(s) ==
    endswith(s, <<"T","O",":">>) /\ NoLower(SubSeq(s, 1, Len(s) - 3))

\* ('FADE OUT.', 'CUT TO BLACK.', 'FADE TO BLACK.')
transitions ==
    { <<"F","A","D","E"," ","O","U","T",".">>,
      <<"C","U","T"," ","T","O"," ","B","L","A","C","K",".">>,
      <<"F","A","D","E"," ","T","O"," ","B","L","A","C","K",".">> }

Contd == <<"(","c","o","n","t","'","d",")">>

\* re.match("^[^a-z]+(\\(cont'd\\))?$", line)
CharacterCue(s) ==
    \/ s # <<>> /\ NoLower(s)
    \/ /\ endswith(s, Contd)
       /\ Len(s) > Len(Contd)
       /\ NoLower(SubSeq(s, 1, Len(s) - Len(Contd)))

\* re.match("\\^\\s*$", line): re.match matches at the start of the line only
DualMarker(s) == s # <<>> /\ s[1] = "^" /\ AllSpace(Tail(s))

\* whether "\\s*\\^\\s*$" matches s from position i on
CaretTailAt(s, i) ==
    \E j \in i..Len(s) :
        /\ s[j] = "^"
        /\ AllSpace(SubSeq(s, i, j - 1))
        /\ AllSpace(From(s, j + 1))

\* re.sub("\\s*\\^\\s*$", '', s): the leftmost match is removed
SubCaret(s) ==
    IF \E i \in 1..Len(s) : CaretTailAt(s, i)
    THEN SubSeq(s, 1, (CHOOSE i \in 1..Len(s) :
            CaretTailAt(s, i) /\ \A h \in 1..(i-1) : ~CaretTailAt(s, h)) - 1)
    ELSE s

\* re.match("^\\s*\\(", line)
ParenLine(s) == FirstNonSpaceIs(s, "(")

-----------------------------------------------------------------------------
(* FountainElem and the values of its fields.                              *)

\* Python's None, as the value of scene_num
None == <<"None">>

\* the local variable text of _body before its first assignment
Unbound == <<"Unbound">>

\* FountainElem(type, text), the other fields at their defaults
FountainElem(type, txt) ==
    [type |-> type, text |-> txt, centered |-> FALSE, scene_num |-> None,
     is_dual_dialog |-> FALSE, section_depth |-> 0]

Last(s) == s[Len(s)]

-----------------------------------------------------------------------------
(* FountainDoc._parse_contents                                             *)

\* contents.lstrip(), on the lines of contents: the leading lines that hold
\* only whitespace go (with their line breaks), and the first line left
\* loses its leading whitespace; a text of whitespace alone becomes ''
RECURSIVE lstriplines(_)
lstriplines(ls) ==
    IF ls = <<>> THEN << <<>> >>
    ELSE IF AllSpace(ls[1]) THEN lstriplines(Tail(ls))
    ELSE <<lstrip(ls[1])>> \o Tail(ls)

\* the lines of contents.lstrip() + '\n\n'
Contents(src) == lstriplines(src) \o << <<>>, <<>> >>

\* contents.index('\n\n'), as the number of lines before it: the first k
\* such that line k + 1 is empty and is ended by a line break
FirstBlank(c) ==
    CHOOSE k \in 1..(Len(c) - 2) :
        c[k + 1] = <<>> /\ \A j \in 1..(k - 1) : c[j + 1] # <<>>

\* top.splitlines() for top = contents[:firstblank]; ''.splitlines() is []
TopLines(c) ==
    IF c[1] = <<>> THEN <<>> ELSE SubSeq(c, 1, FirstBlank(c))

\* ('\n' + contents[firstblank:]).splitlines(): three empty lines, then the
\* lines after the first blank line; splitlines drops the empty last piece
BodyLines(c) ==
    << <<>>, <<>>, <<>> >> \o SubSeq(c, FirstBlank(c) + 2, Len(c) - 1)

\* _parse_contents up to the call of _title, with the locals of _title and
\* of _body at their first values
ParseContents ==
    /\ pc = "start"
    /\ toplines' = TopLines(Contents(source))
    /\ lines' = BodyLines(Contents(source))
    /\ pc' = "title"
    /\ UNCHANGED <<source, error, tindex, foundtitle, openkey, openvals, heap,
                   title_page, index, nl_before, comment_block, indialog,
                   comment_text, text, elements>>
    /\ UNCHANGED pagevars /\ UNCHANGED wrapvars

-----------------------------------------------------------------------------
(* FountainDoc._title: one action for each branch of the loop body, and    *)
(* one for the code after the loop.  A list object is a reference into     *)
(* heap, so that two entries that hold the same list share its changes.    *)

TitleLine == toplines[tindex + 1]

InTitle == pc = "title" /\ tindex < Len(toplines)

Author == <<"a","u","t","h","o","r">>

\* NormalKey without the renaming of 'author'
NormalKey_NoAuthors(k) == lower(k)

\* key.lower(), and 'author' becomes 'authors'
NormalKey(k) == IF lower(k) = Author THEN Author \o <<"s">> ELSE lower(k)

\* {openkey: openvals}
Entry(k, ref) == [key |-> k, vals |-> ref]

\* if openkey != '': self.title_page.append({openkey: openvals})
FlushOpen == IF openkey # <<>> THEN Append(title_page, Entry(openkey, openvals))
             ELSE title_page

\* line == '' or re.match(DIRECTIVE_PATTERN, line)
TitleDirective ==
    /\ InTitle
    /\ TitleLine = <<>> \/ DIRECTIVE_PATTERN(TitleLine)
    /\ foundtitle' = TRUE
    /\ title_page' = FlushOpen
    /\ openkey' = IF DIRECTIVE_PATTERN(TitleLine) THEN NormalKey(KeyGroup(TitleLine))
                  ELSE openkey
    /\ tindex' = tindex + 1
    /\ UNCHANGED <<source, pc, error, toplines, openvals, heap, lines, index,
                   nl_before, comment_block, indialog, comment_text, text,
                   elements>>
    /\ UNCHANGED pagevars /\ UNCHANGED wrapvars

\* elif match := re.match(INLINE_PATTERN, line)
TitleInline ==
    /\ InTitle
    /\ ~(TitleLine = <<>> \/ DIRECTIVE_PATTERN(TitleLine))
    /\ INLINE_PATTERN(TitleLine)
    /\ foundtitle' = TRUE
    \* [value] and the last openvals = [] are new list objects
    /\ heap' = heap \o << <<ValueGroup(TitleLine)>>, <<>> >>
    /\ title_page' = Append(FlushOpen,
                            Entry(NormalKey(KeyGroup(TitleLine)), Len(heap) + 1))
    /\ openkey' = <<>>
    /\ openvals' = Len(heap) + 2
    /\ tindex' = tindex + 1
    /\ UNCHANGED <<source, pc, error, toplines, lines, index, nl_before,
                   comment_block, indialog, comment_text, text, elements>>
    /\ UNCHANGED pagevars /\ UNCHANGED wrapvars

\* elif foundtitle: openvals.append(line.strip())
TitleContinuation ==
    /\ InTitle
    /\ ~(TitleLine = <<>> \/ DIRECTIVE_PATTERN(TitleLine))
    /\ ~INLINE_PATTERN(TitleLine)
    /\ foundtitle
    /\ heap' = [heap EXCEPT ![openvals] = Append(@, strip(TitleLine))]
    /\ tindex' = tindex + 1
    /\ UNCHANGED <<source, pc, error, toplines, foundtitle, openkey, openvals,
                   title_page, lines, index, nl_before, comment_block,
                   indialog, comment_text, text, elements>>
    /\ UNCHANGED pagevars /\ UNCHANGED wrapvars

\* no branch of the loop body is taken
TitleSkip ==
    /\ InTitle
    /\ ~(TitleLine = <<>> \/ DIRECTIVE_PATTERN(TitleLine))
    /\ ~INLINE_PATTERN(TitleLine)
    /\ ~foundtitle
    /\ tindex' = tindex + 1
    /\ UNCHANGED <<source, pc, error, toplines, foundtitle, openkey, openvals,
                   heap, title_page, lines, index, nl_before, comment_block,
                   indialog, comment_text, text, elements>>
    /\ UNCHANGED pagevars /\ UNCHANGED wrapvars

\* the code after the loop, and the return to _parse_contents, which calls
\* _body
TitleEnd ==
    /\ pc = "title"
    /\ tindex = Len(toplines)
    /\ IF /\ foundtitle
          /\ ~(openkey = <<>> /\ Len(heap[openvals]) = 0 /\ Len(title_page) = 0)
          /\ openkey # <<>>
       THEN /\ title_page' = Append(title_page, Entry(openkey, openvals))
            /\ openkey' = <<>>
            /\ heap' = Append(heap, <<>>)
            /\ openvals' = Len(heap) + 1
       ELSE UNCHANGED <<title_page, openkey, heap, openvals>>
    /\ pc' = "body"
    /\ UNCHANGED <<source, error, toplines, tindex, foundtitle, lines, index,
                   nl_before, comment_block, indialog, comment_text, text,
                   elements>>
    /\ UNCHANGED pagevars /\ UNCHANGED wrapvars

\* FountainDoc.title_page as Python shows it: each entry with the list its
\* reference holds now
TitlePage == [i \in 1..Len(title_page) |->
                [key |-> title_page[i].key, vals |-> heap[title_page[i].vals]]]

-----------------------------------------------------------------------------
(* FountainDoc._body: one action for each branch of the if chain of the    *)
(* loop body.  The first branch whose condition holds is taken.            *)

\* what _body leaves alone
titlevars == <<source, toplines, tindex, foundtitle, openkey, openvals, heap,
               title_page, lines>>

InBody == pc = "body" /\ index + 2 <= Len(lines)

\* line, after index += 1
BodyLine == lines[index + 2]

\* the branch of the if chain the line in hand takes
Rule ==
    LET line == BodyLine IN
    IF Len(line) > 0 /\ line[1] = "~" THEN "Lyrics"
    ELSE IF Len(line) > 0 /\ line[1] = "!" THEN "ForcedAction"
    ELSE IF Len(line) > 0 /\ line[1] = "@" THEN "ForcedCharacter"
    ELSE IF TwoSpaces(line) THEN "TwoSpaces"
    ELSE IF line = <<>> /\ ~comment_block THEN "Blank"
    ELSE IF startswith(line, <<"/", "*">>) THEN "OpenComment"
    ELSE IF CloseComment(line) THEN "CloseComment"
    ELSE IF comment_block THEN "InComment"
    ELSE IF PageBreakLine(line) THEN "PageBreak"
    ELSE IF FirstNonSpaceIs(line, "=") THEN "Synopsis"
    ELSE IF nl_before > 0 /\ CommentLine(line) THEN "Comment"
    ELSE IF FirstNonSpaceIs(line, "#") THEN "Section"
    ELSE IF Len(line) > 1 /\ line[1] = "." /\ line[2] # "." THEN "ForcedScene"
    ELSE IF nl_before > 0 /\ SceneHeadingLine(line) THEN "Scene"
    ELSE IF TransitionTo(line) THEN "TransitionTo"
    ELSE IF lstrip(line) \in transitions THEN "TransitionStock"
    ELSE IF line[1] = ">" THEN "Gt"
    ELSE IF /\ nl_before > 0
            /\ CharacterCue(line)
            /\ index + 3 <= Len(lines)
            /\ lines[index + 3] # <<>>
         THEN "Character"
    ELSE IF indialog THEN "Dialogue"
    ELSE "Default"

\* the loop goes on to the next line
Continue == index' = index + 1 /\ pc' = pc /\ error' = error

\* an exception leaves _body, _parse_contents and __init__
Raise(exc) ==
    /\ pc' = "error"
    /\ error' = exc
    /\ index' = index + 1
    /\ UNCHANGED <<comment_block, indialog, comment_text, text, elements>>

\* prevelem.text = f'{prevelem.text}\n{line}' for prevelem = elements[-1]
AppendToLast(els, line) ==
    [els EXCEPT ![Len(els)].text = joinnl(@, line)]

\* lines 70-84
Lyrics ==
    /\ InBody /\ Rule = "Lyrics"
    /\ elements' =
         IF elements = <<>> THEN <<FountainElem("Lyrics", BodyLine)>>
         ELSE IF Last(elements).type = "Lyrics" /\ nl_before > 0
         THEN elements \o <<FountainElem("Lyrics", <<" ">>),
                            FountainElem("Lyrics", BodyLine)>>
         ELSE Append(elements, FountainElem("Lyrics", BodyLine))
    /\ nl_before' = 0
    /\ Continue
    /\ UNCHANGED <<comment_block, indialog, comment_text, text>>
    /\ UNCHANGED titlevars /\ UNCHANGED pagevars /\ UNCHANGED wrapvars

\* lines 86-89
ForcedAction ==
    /\ InBody /\ Rule = "ForcedAction"
    /\ elements' = Append(elements, FountainElem("Action", BodyLine))
    /\ nl_before' = 0
    /\ Continue
    /\ UNCHANGED <<comment_block, indialog, comment_text, text>>
    /\ UNCHANGED titlevars /\ UNCHANGED pagevars /\ UNCHANGED wrapvars

\* lines 91-95
ForcedCharacter ==
    /\ InBody /\ Rule = "ForcedCharacter"
    /\ elements' = Append(elements, FountainElem("Character", BodyLine))
    /\ nl_before' = 0
    /\ indialog' = TRUE
    /\ Continue
    /\ UNCHANGED <<comment_block, comment_text, text>>
    /\ UNCHANGED titlevars /\ UNCHANGED pagevars /\ UNCHANGED wrapvars

\* the dialogue branches: prevelem = self.elements[-1], then the line joins
\* a Dialogue element or starts one; elements[-1] of an empty list raises
DialogueLine ==
    IF elements = <<>> THEN Raise("IndexError")
    ELSE /\ elements' = IF Last(elements).type = "Dialogue"
                        THEN AppendToLast(elements, BodyLine)
                        ELSE Append(elements, FountainElem("Dialogue", BodyLine))
         /\ Continue
         /\ UNCHANGED <<comment_block, indialog, comment_text, text>>

\* lines 97-109; line 107 calls list.append with two arguments
TwoSpaceLine ==
    /\ InBody /\ Rule = "TwoSpaces"
    /\ IF indialog
       THEN nl_before' = 0 /\ DialogueLine
       ELSE Raise("TypeError") /\ UNCHANGED nl_before
    /\ UNCHANGED titlevars /\ UNCHANGED pagevars /\ UNCHANGED wrapvars

\* Blank without the end of the dialogue
Blank_KeepDialog ==
    /\ InBody /\ Rule = "Blank"
    /\ nl_before' = nl_before + 1
    /\ Continue
    /\ UNCHANGED <<indialog, comment_block, comment_text, text, elements>>
    /\ UNCHANGED titlevars /\ UNCHANGED pagevars /\ UNCHANGED wrapvars

\* lines 111-114
Blank ==
    /\ InBody /\ Rule = "Blank"
    /\ indialog' = FALSE
    /\ nl_before' = nl_before + 1
    /\ Continue
    /\ UNCHANGED <<comment_block, comment_text, text, elements>>
    /\ UNCHANGED titlevars /\ UNCHANGED pagevars /\ UNCHANGED wrapvars

\* lines 116-125
OpenComment ==
    /\ InBody /\ Rule = "OpenComment"
    /\ IF CloseComment(BodyLine)
       THEN /\ text' = remove2(remove2(BodyLine, <<"/", "*">>), <<"*", "/">>)
            /\ comment_block' = FALSE
            /\ elements' = Append(elements, FountainElem("Boneyard", text'))
            /\ nl_before' = 0
            /\ UNCHANGED comment_text
       ELSE /\ comment_block' = TRUE
            /\ comment_text' = comment_text \o <<"\n">>
            /\ UNCHANGED <<text, elements, nl_before>>
    /\ Continue
    /\ UNCHANGED indialog
    /\ UNCHANGED titlevars /\ UNCHANGED pagevars /\ UNCHANGED wrapvars

\* re.match(text, r'^\s*$') of line 128: text is the pattern and the
\* string is the five characters ^\s*$; text holds only whitespace here,
\* each of which matches itself
TextAsPattern(t) == startswith(<<"^", "\\", "s", "*", "$">>, t)

\* lines 126-134
EndComment ==
    /\ InBody /\ Rule = "CloseComment"
    /\ text' = remove2(BodyLine, <<"*", "/">>)
    /\ comment_block' = FALSE
    /\ elements' = Append(elements, FountainElem("Boneyard",
            IF text' = <<>> \/ TextAsPattern(text')
            THEN comment_text \o strip(text') ELSE comment_text))
    /\ comment_text' = <<>>
    /\ nl_before' = 0
    /\ Continue
    /\ UNCHANGED indialog
    /\ UNCHANGED titlevars /\ UNCHANGED pagevars /\ UNCHANGED wrapvars

\* lines 136-138: the literal 'line' is added, not the line
InComment ==
    /\ InBody /\ Rule = "InComment"
    /\ comment_text' = comment_text \o <<"l", "i", "n", "e", "\n">>
    /\ Continue
    /\ UNCHANGED <<nl_before, comment_block, indialog, text, elements>>
    /\ UNCHANGED titlevars /\ UNCHANGED pagevars /\ UNCHANGED wrapvars

\* lines 140-143
PageBreak ==
    /\ InBody /\ Rule = "PageBreak"
    /\ elements' = Append(elements, FountainElem("Page Break", BodyLine))
    /\ nl_before' = 0
    /\ Continue
    /\ UNCHANGED <<comment_block, indialog, comment_text, text>>
    /\ UNCHANGED titlevars /\ UNCHANGED pagevars /\ UNCHANGED wrapvars

\* lines 145-151
Synopsis ==
    /\ InBody /\ Rule = "Synopsis"
    /\ text' = range_replace(BodyLine, 0, LeadSpace(BodyLine) + 1, <<>>)
    /\ elements' = Append(elements, FountainElem("Synopsis", text'))
    /\ Continue
    /\ UNCHANGED <<nl_before, comment_block, indialog, comment_text>>
    /\ UNCHANGED titlevars /\ UNCHANGED pagevars /\ UNCHANGED wrapvars

\* lines 153-158
Comment ==
    /\ InBody /\ Rule = "Comment"
    /\ text' = strip(remove2(remove2(BodyLine, <<"[", "[">>), <<"]", "]">>))
    /\ elements' = Append(elements, FountainElem("Comment", text'))
    /\ Continue
    /\ UNCHANGED <<nl_before, comment_block, indialog, comment_text>>
    /\ UNCHANGED titlevars /\ UNCHANGED pagevars /\ UNCHANGED wrapvars

\* lines 160-175: depth is the length of the whole match of '^\s*#+'
SectionHeading ==
    /\ InBody /\ Rule = "Section"
    /\ nl_before' = 0
    /\ text' = From(BodyLine, SectionSpan(BodyLine) + 1)
    /\ elements' =
         IF text' = <<>> THEN elements
         ELSE Append(elements,
                [FountainElem("Section Heading", text')
                   EXCEPT !.section_depth = SectionSpan(BodyLine)])
    /\ Continue
    /\ UNCHANGED <<comment_block, indialog, comment_text>>
    /\ UNCHANGED titlevars /\ UNCHANGED pagevars /\ UNCHANGED wrapvars

\* lines 177-191: the match of line 181 starts at the line's first
\* character; within it text is '' and text[1:match.span()[0]] is ''
ForcedSceneHeading ==
    /\ InBody /\ Rule = "ForcedScene"
    /\ nl_before' = 0
    /\ text' = IF SceneNumClose(BodyLine) > 0 THEN <<>>
               ELSE strip(Tail(BodyLine))
    /\ elements' = Append(elements,
            [FountainElem("Scene Heading", text') EXCEPT !.scene_num =
                IF SceneNumClose(BodyLine) > 0
                THEN SubSeq(BodyLine, 2, SceneNumClose(BodyLine) - 1)
                ELSE None])
    /\ Continue
    /\ UNCHANGED <<comment_block, indialog, comment_text>>
    /\ UNCHANGED titlevars /\ UNCHANGED pagevars /\ UNCHANGED wrapvars

\* lines 193-210: when the match of line 201 succeeds it covers the whole
\* line, which re.sub then replaces by ''
SceneHeading ==
    /\ InBody /\ Rule = "Scene"
    /\ nl_before' = 0
    /\ text' = IF SceneNumClose(BodyLine) > 0 THEN <<>> ELSE BodyLine
    /\ elements' = Append(elements,
            [FountainElem("Scene Heading", text') EXCEPT !.scene_num =
                IF SceneNumClose(BodyLine) > 0
                THEN SubSeq(BodyLine, 2, SceneNumClose(BodyLine) - 1)
                ELSE None])
    /\ Continue
    /\ UNCHANGED <<comment_block, indialog, comment_text>>
    /\ UNCHANGED titlevars /\ UNCHANGED pagevars /\ UNCHANGED wrapvars

\* lines 212-215
TransitionSuffix ==
    /\ InBody /\ Rule = "TransitionTo"
    /\ nl_before' = 0
    /\ elements' = Append(elements, FountainElem("Transition", BodyLine))
    /\ Continue
    /\ UNCHANGED <<comment_block, indialog, comment_text, text>>
    /\ UNCHANGED titlevars /\ UNCHANGED pagevars /\ UNCHANGED wrapvars

\* lines 217-222
TransitionPhrase ==
    /\ InBody /\ Rule = "TransitionStock"
    /\ nl_before' = 0
    /\ elements' = Append(elements, FountainElem("Transition", BodyLine))
    /\ Continue
    /\ UNCHANGED <<comment_block, indialog, comment_text, text>>
    /\ UNCHANGED titlevars /\ UNCHANGED pagevars /\ UNCHANGED wrapvars

\* lines 224-236: line 233 reads text, not line; before the first
\* assignment of text in this call that raises UnboundLocalError
ForcedTransition ==
    /\ InBody /\ Rule = "Gt"
    /\ IF Len(BodyLine) > 1 /\ Last(BodyLine) = "<"
       THEN /\ text' = strip(SubSeq(BodyLine, 2, Len(BodyLine) - 1))
            /\ elements' = Append(elements,
                    [FountainElem("Action", text') EXCEPT !.centered = TRUE])
            /\ nl_before' = 0
            /\ Continue
            /\ UNCHANGED <<comment_block, indialog, comment_text>>
       ELSE IF text = Unbound
       THEN Raise("UnboundLocalError") /\ UNCHANGED nl_before
       ELSE /\ text' = strip(From(text, 2))
            /\ elements' = Append(elements, FountainElem("Transition", text'))
            /\ nl_before' = 0
            /\ Continue
            /\ UNCHANGED <<comment_block, indialog, comment_text>>
    /\ UNCHANGED titlevars /\ UNCHANGED pagevars /\ UNCHANGED wrapvars

\* lines 250-257: the nearest Character element before the end of els is
\* marked
MarkPrevCharacter(els) ==
    IF \E i \in 1..Len(els) : els[i].type = "Character"
    THEN LET i == CHOOSE i \in 1..Len(els) :
                    /\ els[i].type = "Character"
                    /\ \A j \in (i+1)..Len(els) : els[j].type # "Character"
         IN [els EXCEPT ![i].is_dual_dialog = TRUE]
    ELSE els

\* lines 238-261
Character ==
    /\ InBody /\ Rule = "Character"
    /\ nl_before' = 0
    /\ elements' =
         IF DualMarker(BodyLine)
         THEN Append(MarkPrevCharacter(elements),
                [FountainElem("Character", SubCaret(BodyLine))
                    EXCEPT !.is_dual_dialog = TRUE])
         ELSE Append(elements, FountainElem("Character", BodyLine))
    /\ indialog' = TRUE
    /\ Continue
    /\ UNCHANGED <<comment_block, comment_text, text>>
    /\ UNCHANGED titlevars /\ UNCHANGED pagevars /\ UNCHANGED wrapvars

\* lines 263-273
Dialogue ==
    /\ InBody /\ Rule = "Dialogue"
    /\ IF nl_before = 0 /\ ParenLine(BodyLine)
       THEN /\ elements' = Append(elements, FountainElem("Parenthetical", BodyLine))
            /\ Continue
            /\ UNCHANGED <<comment_block, indialog, comment_text, text>>
       ELSE DialogueLine
    /\ UNCHANGED nl_before
    /\ UNCHANGED titlevars /\ UNCHANGED pagevars /\ UNCHANGED wrapvars

\* Default without the demotion of a Scene Heading that is continued
Default_NoDemote ==
    /\ InBody /\ Rule = "Default"
    /\ elements' =
         IF nl_before = 0 /\ Len(elements) > 0
         THEN AppendToLast(elements, BodyLine)
         ELSE Append(elements, FountainElem("Action", BodyLine))
    /\ nl_before' = 0
    /\ Continue
    /\ UNCHANGED <<comment_block, indialog, comment_text, text>>
    /\ UNCHANGED titlevars /\ UNCHANGED pagevars /\ UNCHANGED wrapvars

\* lines 275-286
Default ==
    /\ InBody /\ Rule = "Default"
    /\ elements' =
         IF nl_before = 0 /\ Len(elements) > 0
         THEN AppendToLast(
                IF Last(elements).type = "Scene Heading"
                THEN [elements EXCEPT ![Len(elements)].type = "Action"]
                ELSE elements, BodyLine)
         ELSE Append(elements, FountainElem("Action", BodyLine))
    /\ nl_before' = 0
    /\ Continue
    /\ UNCHANGED <<comment_block, indialog, comment_text, text>>
    /\ UNCHANGED titlevars /\ UNCHANGED pagevars /\ UNCHANGED wrapvars

\* the for loop of _body is exhausted: _body, _parse_contents and __init__
\* return
Return ==
    /\ pc = "body" /\ index + 2 > Len(lines)
    /\ pc' = "done"
    /\ UNCHANGED <<error, index, nl_before, comment_block, indialog,
                   comment_text, text, elements>>
    /\ UNCHANGED titlevars /\ UNCHANGED pagevars /\ UNCHANGED wrapvars

-----------------------------------------------------------------------------
(* pagecount.py: wrap                                                      *)

\* split at blanks only: a line break is part of a word
RECURSIVE split_Spaces(_)
split_Spaces(s) ==
    IF s = <<>> THEN <<>>
    ELSE IF s[1] = " " THEN split_Spaces(Tail(s))
    ELSE LET n == IF \E i \in 1..Len(s) : s[i] = " "
                  THEN (CHOOSE i \in 1..Len(s) :
                          s[i] = " " /\ \A j \in 1..(i-1) : s[j] # " ") - 1
                  ELSE Len(s)
         IN <<SubSeq(s, 1, n)>> \o split_Spaces(From(s, n + 1))

\* str.split(): the maximal runs of characters that are not whitespace
RECURSIVE split(_)
split(s) ==
    LET t == lstrip(s) IN
    IF t = <<>> THEN <<>>
    ELSE LET n == IF \E i \in 1..Len(t) : t[i] \in Whitespace
                  THEN (CHOOSE i \in 1..Len(t) :
                          t[i] \in Whitespace /\ \A j \in 1..(i-1) : t[j] \notin Whitespace) - 1
                  ELSE Len(t)
         IN <<SubSeq(t, 1, n)>> \o split(From(t, n + 1))

\* the for loop of wrap over the words left, from out and spaceleft
RECURSIVE WrapLoop(_, _, _, _)
WrapLoop(words, out, spaceleft, linewidth) ==
    IF words = <<>> THEN out
    ELSE LET word == Head(words)
             appended == word \o <<" ">>
         IN IF Len(appended) > spaceleft
            THEN WrapLoop(Tail(words), out \o <<"\n">> \o word \o <<" ">>,
                          linewidth - Len(word), linewidth)
            ELSE WrapLoop(Tail(words), out \o appended,
                          spaceleft - Len(appended), linewidth)

\* wrap(text, linewidth)
wrap(txt, linewidth) == rstrip(WrapLoop(split(txt), <<>>, linewidth, linewidth))

\* str.splitlines(), for the line break "\n": the pieces between line
\* breaks, without an empty piece after the last line break
RECURSIVE splitlines(_)
splitlines(s) ==
    IF s = <<>> THEN <<>>
    ELSE IF \E i \in 1..Len(s) : s[i] = "\n"
    THEN LET i == CHOOSE i \in 1..Len(s) :
                    s[i] = "\n" /\ \A j \in 1..(i-1) : s[j] # "\n"
         IN <<SubSeq(s, 1, i - 1)>> \o splitlines(From(s, i + 1))
    ELSE <<s>>

InWrapLoop == wpc = "loop" /\ wwords # <<>>

\* word of the iteration in hand
wword == Head(wwords)

\* appended = f"{word} "
wappended == wword \o <<" ">>

\* WrapNewLine with the whole width left after the word
WrapNewLine_FullLeft ==
    /\ InWrapLoop
    /\ Len(wappended) > wleft
    /\ wout' = wout \o <<"\n">> \o wword \o <<" ">>
    /\ wleft' = wwidth
    /\ wwords' = Tail(wwords)
    /\ UNCHANGED <<wtext, wwidth, wpc>>
    /\ UNCHANGED parsevars /\ UNCHANGED pagevars

\* an iteration that takes the if branch: the word starts a new line
WrapNewLine ==
    /\ InWrapLoop
    /\ Len(wappended) > wleft
    /\ wout' = wout \o <<"\n">> \o wword \o <<" ">>
    /\ wleft' = wwidth - Len(wword)
    /\ wwords' = Tail(wwords)
    /\ UNCHANGED <<wtext, wwidth, wpc>>
    /\ UNCHANGED parsevars /\ UNCHANGED pagevars

\* an iteration that takes the else branch: the word joins the line
WrapAppend ==
    /\ InWrapLoop
    /\ Len(wappended) <= wleft
    /\ wout' = wout \o wappended
    /\ wleft' = wleft - Len(wappended)
    /\ wwords' = Tail(wwords)
    /\ UNCHANGED <<wtext, wwidth, wpc>>
    /\ UNCHANGED parsevars /\ UNCHANGED pagevars

\* return out.rstrip()
WrapReturn ==
    /\ wpc = "loop" /\ wwords = <<>>
    /\ wout' = rstrip(wout)
    /\ wpc' = "done"
    /\ UNCHANGED <<wtext, wwidth, wwords, wleft>>
    /\ UNCHANGED parsevars /\ UNCHANGED pagevars

-----------------------------------------------------------------------------
(* pagecount.py: pagecount                                                 *)

\* WIDTHS, in tenths of an inch
WIDTHS == ("Action" :> 60) @@ ("Dialogue" :> 33) @@ ("Character" :> 33) @@
          ("Parenthetical" :> 20) @@ ("Transition" :> 15)

\* SKIPBREAKS without its last pair
SKIPBREAKS_Short == { <<"Character", "Dialogue">>, <<"Character", "Parenthetical">>,
                      <<"Dialogue", "Parenthetical">> }

SKIPBREAKS == { <<"Character", "Dialogue">>, <<"Character", "Parenthetical">>,
                <<"Dialogue", "Parenthetical">>, <<"Parenthetical", "Dialogue">> }

\* etype after "if etype not in WIDTHS: etype = 'Action'"
EType(elem) == IF elem.type \in DOMAIN WIDTHS THEN elem.type ELSE "Action"

\* floor(WIDTHS[etype] * char_per_inch)
Width(etype, cpi) == (WIDTHS[etype] * cpi) \div 10

\* len(wrap(elem.text, width).splitlines())
WrappedLines(elem, cpi) ==
    Len(splitlines(wrap(elem.text, Width(EType(elem), cpi))))

\* FillPages with an if in place of the while
FillPages_If(st, lpp) ==
    IF st.lines >= lpp
    THEN [st EXCEPT !.pages = @ + 1, !.lines = @ - lpp]
    ELSE st

\* while lines >= lines_per_page: pages += 1; lines -= lines_per_page
RECURSIVE FillPages(_, _)
FillPages(st, lpp) ==
    IF st.lines >= lpp
    THEN FillPages([st EXCEPT !.pages = @ + 1, !.lines = @ - lpp], lpp)
    ELSE st

\* CasePageBreak without the reset of lines
CasePageBreak_KeepLines(st) ==
    [pages |-> st.pages + 1, lines |-> st.lines, prevtype |-> ""]

\* case "Page Break" of the loop body, on the locals pages, lines, prevtype
CasePageBreak(st) == [pages |-> st.pages + 1, lines |-> 0, prevtype |-> ""]

\* AddedLines without the separator line
AddedLines_NoSeparator(st, elem, cpi) == WrappedLines(elem, cpi)

\* the lines the element adds: its wrapped lines, and one more unless
\* prevtype is '' or the pair is one of SKIPBREAKS
AddedLines(st, elem, cpi) ==
    WrappedLines(elem, cpi) +
    (IF st.prevtype # "" /\ <<st.prevtype, EType(elem)>> \notin SKIPBREAKS
     THEN 1 ELSE 0)

\* case _ of the loop body and the rest of the loop body
CaseOther(st, elem, lpp, cpi) ==
    [FillPages([st EXCEPT !.lines = @ + AddedLines(st, elem, cpi)], lpp)
        EXCEPT !.prevtype = EType(elem)]

\* the loop body for one element
PageStep(st, elem, lpp, cpi) ==
    IF elem.type = "Page Break" THEN CasePageBreak(st)
    ELSE CaseOther(st, elem, lpp, cpi)

\* the locals of pagecount after the elements els, from the locals st
RECURSIVE PageLoop(_, _, _, _)
PageLoop(st, els, lpp, cpi) ==
    IF els = <<>> THEN st
    ELSE PageLoop(PageStep(st, Head(els), lpp, cpi), Tail(els), lpp, cpi)

\* pagecount(fount, lines_per_page, char_per_inch) for fount.elements = els
pagecount(els, lpp, cpi) ==
    PageLoop([pages |-> 0, lines |-> 0, prevtype |-> ""], els, lpp, cpi).pages

\* the locals of the running pagecount
PageLocals == [pages |-> pages, lines |-> plines, prevtype |-> prevtype]

InPageLoop == ppc = "loop" /\ eindex < Len(fount)

\* elem of the iteration in hand
Elem == fount[eindex + 1]

SetLocals(st) ==
    /\ pages' = st.pages
    /\ plines' = st.lines
    /\ prevtype' = st.prevtype

\* an iteration that takes case "Page Break"
PageBreakElem ==
    /\ InPageLoop
    /\ Elem.type = "Page Break"
    /\ SetLocals(CasePageBreak(PageLocals))
    /\ eindex' = eindex + 1
    /\ UNCHANGED <<fount, lines_per_page, char_per_inch, ppc>>
    /\ UNCHANGED parsevars /\ UNCHANGED wrapvars

\* an iteration that takes case _
OtherElem ==
    /\ InPageLoop
    /\ Elem.type # "Page Break"
    /\ SetLocals(CaseOther(PageLocals, Elem, lines_per_page, char_per_inch))
    /\ eindex' = eindex + 1
    /\ UNCHANGED <<fount, lines_per_page, char_per_inch, ppc>>
    /\ UNCHANGED parsevars /\ UNCHANGED wrapvars

\* return pages
PageReturn ==
    /\ ppc = "loop"
    /\ eindex = Len(fount)
    /\ ppc' = "done"
    /\ UNCHANGED <<fount, lines_per_page, char_per_inch, eindex, pages, plines,
                   prevtype>>
    /\ UNCHANGED parsevars /\ UNCHANGED wrapvars

-----------------------------------------------------------------------------
(* The texts the parser is run on.                                         *)

\* longest run of title block lines drawn from TitlePool
MaxTitleLines == 4

\* longest run of body lines drawn from BodyPool
MaxTailLines == 2

\* lines of a title block: inline keys, directives, values, and a line
\* whose key is too short for either pattern
TitlePool ==
    { <<"T","i",":"," ","F">>,
      <<"A","u","t","h","o","r",":"," ","J">>,
      <<"A","U","T","H","O","R",":">>,
      <<"K","e",":">>,
      <<" "," ","v"," ">>,
      <<"a",":"," ","b">> }

\* lines of a body: at least one for every branch of _body
BodyPool ==
    { <<"~","a">>,
      <<"!","a">>,
      <<"@","A">>,
      <<" "," ">>,
      <<>>,
      <<"/","*">>,
      <<"*","/">>,
      <<"=","=","=">>,
      <<"=","a">>,
      <<"[","[","a","]","]">>,
      <<"#","a">>,
      <<".","A">>,
      <<"I","N","T","."," ","A">>,
      <<"T","O",":">>,
      <<"F","A","D","E"," ","O","U","T",".">>,
      <<">","a","<">>,
      <<">","a">>,
      <<"A">>,
      <<"B"," ","^">>,
      <<"^">>,
      <<"(","b">>,
      <<"b">> }

\* the sequences over S of length at most n
RECURSIVE SeqsUpTo(_, _)
SeqsUpTo(S, n) ==
    IF n = 0 THEN { <<>> }
    ELSE LET shorter == SeqsUpTo(S, n - 1)
         IN shorter \cup { Append(q, x) : q \in shorter, x \in S }

\* the example of the specification:
\* 'Title: Foo\nAuthor: Jane Doe\n\nINT. ROOM - DAY\nHello.'
ExampleDoc ==
    << <<"T","i","t","l","e",":"," ","F","o","o">>, <<"A","u","t","h","o","r",":"," ","J","a","n","e"," ","D","o","e">>, <<>>, <<"I","N","T","."," ","R","O","O","M"," ","-"," ","D","A","Y">>, <<"H","e","l","l","o",".">> >>

\* title blocks over TitlePool, alone or before a short body
TitleDocs ==
    { t \o b : t \in SeqsUpTo(TitlePool, MaxTitleLines) \ { <<>> },
               b \in { <<>>, << <<>>, <<"b">> >> } }

\* what comes before the explored lines of a body: a leading block that is
\* no title page and a blank line, then nothing, an open dialogue, or a
\* dialogue closed by a blank line
BodyStarts ==
    { << <<"z","z">>, <<>> >>,
      << <<"z","z">>, <<>>, <<"A">>, <<"b">> >>,
      << <<"z","z">>, <<>>, <<"A">>, <<"b">>, <<>> >> }

BodyDocs ==
    { p \o t : p \in BodyStarts, t \in SeqsUpTo(BodyPool, MaxTailLines) }

\* texts that start with blank lines and whitespace, and the empty text
LeadingSpaceDocs ==
    { << <<>> >>,
      << <<>>, <<" ">>, <<" ","\t","z","z">>, <<>>, <<"b">> >>,
      << <<" "," ">>, <<"T","i",":"," ","F">> >> }

\* lines with a marker: a comment on one line, headings that end in a
\* scene number, and section headings with blanks before the markers, with
\* nothing after them and with two markers
MarkerLines ==
    { <<"/","*","a","*","/">>,
      <<".","A"," ","#","1","#">>,
      <<"I","N","T","."," ","A"," ","#","1","#">>,
      <<" ","#","a">>,
      <<"#">>,
      <<"#","#","a">> }

\* a marker line after a blank line, before a short run of body lines
MarkerDocs ==
    { << <<"z","z">>, <<>>, m >> \o t :
        m \in MarkerLines, t \in SeqsUpTo(BodyPool, MaxTailLines - 1) }

\* what comes before the explored lines of a block comment: its opening
\* line, alone or after a block comment that has been closed
CommentStarts ==
    { << <<"z","z">>, <<>>, <<"/","*">> >>,
      << <<"z","z">>, <<>>, <<"/","*">>, <<"b">>, <<"*","/">>, <<"/","*">> >> }

CommentDocs ==
    { p \o t : p \in CommentStarts, t \in SeqsUpTo(BodyPool, MaxTailLines) }

Docs == { ExampleDoc } \cup TitleDocs \cup BodyDocs \cup LeadingSpaceDocs
            \cup MarkerDocs \cup CommentDocs

-----------------------------------------------------------------------------
(* The element sequences the estimator is run on.                          *)

\* longest element sequence of the small inputs
MaxElems == 3

\* largest lines_per_page of the small inputs
MaxLinesPerPage == 2

\* largest char_per_inch of the small inputs
MaxCharPerInch == 1

\* longest run of one-word Action elements at the default settings
MaxRun == 56

\* the defaults of pagecount's parameters
DefaultLinesPerPage == 55
DefaultCharPerInch == 12

\* kinds with a width of their own, one kind without, and the page break
PageKinds == { "Action", "Dialogue", "Character", "Parenthetical",
               "Scene Heading" }

\* one word, two words on one line, and two lines of one word
PageTexts == { <<"x">>, <<"x","x"," ","y">>, <<"x","\n","y">> }

PageElems ==
    { FountainElem(k, t) : k \in PageKinds, t \in PageTexts } \cup
    { FountainElem("Page Break", <<"=","=","=">>) }

\* n Action elements of the one word x
ActionRun(n) == [i \in 1..n |-> FountainElem("Action", <<"x">>)]

-----------------------------------------------------------------------------
(* The texts and widths the line wrapper is run on.                        *)

\* most words of a text
MaxWords == 4

\* largest linewidth
MaxWidth == 6

\* words of one, two and four characters
WrapWords == { <<"a">>, <<"b","b">>, <<"c","c","c","c">> }

\* the words ws with sep after each but the last
RECURSIVE Joined(_, _)
Joined(ws, sep) ==
    IF ws = <<>> THEN <<>>
    ELSE IF Len(ws) = 1 THEN ws[1]
    ELSE ws[1] \o sep \o Joined(Tail(ws), sep)

\* texts of words with one space between them, with a line break between
\* them, and with blanks and line breaks around them
WrapTexts ==
    { Joined(ws, <<" ">>) : ws \in SeqsUpTo(WrapWords, MaxWords) } \cup
    { Joined(ws, <<"\n">>) : ws \in SeqsUpTo(WrapWords, 2) } \cup
    { <<" ","a"," "," ","b","b","\t">>, <<"\n","a"," ","\n","a","\n">> }

-----------------------------------------------------------------------------
(* The parser: FountainDoc(source).                                        *)

PageIdle ==
    /\ fount = <<>>
    /\ lines_per_page = DefaultLinesPerPage
    /\ char_per_inch = DefaultCharPerInch
    /\ ppc = "idle"
    /\ eindex = 0
    /\ pages = 0
    /\ plines = 0
    /\ prevtype = ""

\* the state when __init__ calls _parse_contents(source)
ParserStart(src) ==
    /\ source = src
    /\ pc = "start"
    /\ error = ""
    /\ toplines = <<>>
    /\ tindex = 0
    /\ foundtitle = FALSE
    /\ openkey = <<>>
    /\ openvals = 1
    /\ heap = << <<>> >>
    /\ title_page = <<>>
    /\ lines = <<>>
    /\ index = -1
    /\ nl_before = 0
    /\ comment_block = FALSE
    /\ indialog = FALSE
    /\ comment_text = <<>>
    /\ text = Unbound
    /\ elements = <<>>

\* wrap is not running
WrapIdle ==
    /\ wtext = <<>>
    /\ wwidth = 1
    /\ wpc = "idle"
    /\ wwords = <<>>
    /\ wout = <<>>
    /\ wleft = 1

Init == (\E src \in Docs : ParserStart(src)) /\ PageIdle /\ WrapIdle

Next ==
    \/ ParseContents
    \/ TitleDirective
    \/ TitleInline
    \/ TitleContinuation
    \/ TitleSkip
    \/ TitleEnd
    \/ Lyrics
    \/ ForcedAction
    \/ ForcedCharacter
    \/ TwoSpaceLine
    \/ Blank
    \/ OpenComment
    \/ EndComment
    \/ InComment
    \/ PageBreak
    \/ Synopsis
    \/ Comment
    \/ SectionHeading
    \/ ForcedSceneHeading
    \/ SceneHeading
    \/ TransitionSuffix
    \/ TransitionPhrase
    \/ ForcedTransition
    \/ Character
    \/ Dialogue
    \/ Default
    \/ Return

Spec == Init /\ [][Next]_vars

-----------------------------------------------------------------------------
(* The estimator: pagecount(fount, lines_per_page, char_per_inch).         *)

\* the state when pagecount starts its loop
PageStart(els, lpp, cpi) ==
    /\ fount = els
    /\ lines_per_page = lpp
    /\ char_per_inch = cpi
    /\ ppc = "loop"
    /\ eindex = 0
    /\ pages = 0
    /\ plines = 0
    /\ prevtype = ""

PageInit ==
    /\ ParserStart(<<>>)
    /\ WrapIdle
    /\ \/ \E els \in SeqsUpTo(PageElems, MaxElems) :
          \E lpp \in 1..MaxLinesPerPage :
          \E cpi \in 1..MaxCharPerInch : PageStart(els, lpp, cpi)
       \/ \E n \in 1..MaxRun :
            PageStart(ActionRun(n), DefaultLinesPerPage, DefaultCharPerInch)

PageNext ==
    \/ PageBreakElem
    \/ OtherElem
    \/ PageReturn

PageSpec == PageInit /\ [][PageNext]_vars

-----------------------------------------------------------------------------
(* The line wrapper: wrap(text, linewidth).                                *)

\* the state when wrap starts its loop
WrapStart(txt, width) ==
    /\ wtext = txt
    /\ wwidth = width
    /\ wpc = "loop"
    /\ wwords = split(txt)
    /\ wout = <<>>
    /\ wleft = width

WrapInit ==
    /\ ParserStart(<<>>)
    /\ PageIdle
    /\ \E txt \in WrapTexts : \E width \in 1..MaxWidth : WrapStart(txt, width)

WrapNext ==
    \/ WrapNewLine
    \/ WrapAppend
    \/ WrapReturn

WrapSpec == WrapInit /\ [][WrapNext]_vars

-----------------------------------------------------------------------------
(* The properties checked of the parser (under Spec).                      *)

\* the line in hand was taken by the implicit scene heading branch in the
\* step that led here: it matches the heading pattern and is, whole, the
\* text of the last element, a Scene Heading
JustHeading ==
    /\ pc = "body"
    /\ index >= 0
    /\ elements # <<>>
    /\ SceneHeadingLine(lines[index + 1])
    /\ Last(elements).type = "Scene Heading"
    /\ Last(elements).text = lines[index + 1]

\* the line after the line in hand exists and is not blank
NextNotBlank == index + 2 <= Len(lines) /\ lines[index + 2] # <<>>

\* C1 as stated: the example's first body element is a Scene Heading with
\* text ROOM - DAY, and an implicit scene heading that is directly followed
\* by a non-blank line is still a Scene Heading once that line is read (an
\* element that has become an Action never becomes a Scene Heading again,
\* so it is not one when parsing ends either).
C1_Original ==
    /\ [](pc = "done" /\ source = ExampleDoc =>
            /\ elements # <<>>
            /\ elements[1].type = "Scene Heading"
            /\ elements[1].text = <<"R","O","O","M"," ","-"," ","D","A","Y">>)
    /\ [][JustHeading /\ NextNotBlank =>
            elements'[Len(elements)].type = "Scene Heading"]_vars

\* C1 amended: the example's only body element is an Action with text
\* INT. ROOM - DAY\nHello.; a line taken as an implicit scene heading gives
\* a Scene Heading whose text is the whole line; when the non-blank line
\* directly after it falls through to the default rule the element becomes
\* an Action with that line appended, and a line taken by any other rule
\* leaves the element as it is.
C1_HeadingDemoted ==
    /\ [](pc = "done" /\ source = ExampleDoc =>
            elements = <<FountainElem("Action",
                joinnl(<<"I","N","T","."," ","R","O","O","M"," ","-"," ","D","A","Y">>, <<"H","e","l","l","o",".">>))>>)
    /\ [][/\ InBody /\ Rule = "Scene" =>
                /\ Last(elements').type = "Scene Heading"
                /\ Last(elements').text = BodyLine
          /\ JustHeading /\ NextNotBlank =>
                elements'[Len(elements)] =
                    IF Rule = "Default"
                    THEN [Last(elements) EXCEPT !.type = "Action",
                                                !.text = joinnl(@, BodyLine)]
                    ELSE Last(elements)]_vars

\* the example has been parsed and its heading line has been demoted
C1_Witness ==
    /\ pc = "done"
    /\ source = ExampleDoc
    /\ Len(elements) = 1
    /\ elements[1].type = "Action"

\* s holds sub as a run of consecutive characters
IsInfix(sub, s) ==
    \E i \in 0..(Len(s) - Len(sub)) : SubSeq(s, i + 1, i + Len(sub)) = sub

\* the lines before the first blank line of the text
LeadingBlock == TopLines(Contents(source))

\* C2: when the leading block holds no directive and no inline key line,
\* the title page is empty and every non-blank line of the block is part of
\* the text of some element once parsing has ended.
C2_LeadingBlockIsBody ==
    (/\ pc = "done"
     /\ \A i \in 1..Len(LeadingBlock) :
            ~DIRECTIVE_PATTERN(LeadingBlock[i]) /\ ~INLINE_PATTERN(LeadingBlock[i]))
    => /\ title_page = <<>>
       /\ \A i \in 1..Len(LeadingBlock) :
            ~AllSpace(LeadingBlock[i]) =>
                \E k \in 1..Len(elements) :
                    IsInfix(strip(LeadingBlock[i]), elements[k].text)

\* C3: no text drives the parser into an error: it never raises.
C3_NeverRaises == pc # "error" /\ error = ""


\* the nearest Character element of els, 0 when there is none
LastCharacter(els) ==
    IF \E i \in 1..Len(els) : els[i].type = "Character"
    THEN CHOOSE i \in 1..Len(els) :
            els[i].type = "Character" /\ \A j \in (i+1)..Len(els) : els[j].type # "Character"
    ELSE 0

\* C4: when a line that ends in ^ is taken as a Character cue by the cue
\* heuristic and a Character element precedes it, the new element and the
\* nearest earlier Character element both have is_dual_dialog set, and the
\* new element's text is the line without the marker.
C4_DualDialogue ==
    [][(/\ InBody /\ Rule = "Character"
        /\ Last(rstrip(BodyLine)) = "^"
        /\ LastCharacter(elements) > 0)
       => /\ Last(elements').type = "Character"
          /\ Last(elements').is_dual_dialog
          /\ Last(elements').text = SubCaret(BodyLine)
          /\ elements'[LastCharacter(elements)].is_dual_dialog]_vars

\* every line of the title block is an inline key: value line
AllInline == toplines # <<>> /\ \A i \in 1..Len(toplines) : INLINE_PATTERN(toplines[i])

\* the key of an inline or directive line as a title page records it
RecordedKey(line) ==
    IF lower(KeyGroup(line)) = Author THEN Author \o <<"s">>
    ELSE lower(KeyGroup(line))

IsKeyLine(line) == DIRECTIVE_PATTERN(line) \/ INLINE_PATTERN(line)

\* the title block is two or more directive lines, each followed by one
\* or more lines that are no key lines
DirectiveBlocks ==
    /\ toplines # <<>>
    /\ DIRECTIVE_PATTERN(toplines[1])
    /\ \A i \in 1..Len(toplines) : ~INLINE_PATTERN(toplines[i])
    /\ \A i \in 1..Len(toplines) :
         DIRECTIVE_PATTERN(toplines[i]) =>
            i < Len(toplines) /\ ~DIRECTIVE_PATTERN(toplines[i + 1])
    /\ Cardinality({ i \in 1..Len(toplines) : DIRECTIVE_PATTERN(toplines[i]) }) >= 2

\* the trimmed lines from line i on, up to the next key line
RECURSIVE ValuesFrom(_)
ValuesFrom(i) ==
    IF i > Len(toplines) \/ IsKeyLine(toplines[i]) THEN <<>>
    ELSE <<strip(toplines[i])>> \o ValuesFrom(i + 1)

\* the entries of the directive lines from line i on
RECURSIVE DirectiveEntries(_)
DirectiveEntries(i) ==
    IF i > Len(toplines) THEN <<>>
    ELSE IF DIRECTIVE_PATTERN(toplines[i])
    THEN <<[key |-> RecordedKey(toplines[i]), vals |-> ValuesFrom(i + 1)]>>
         \o DirectiveEntries(i + 1)
    ELSE DirectiveEntries(i + 1)

\* C6: for a title block of two or more directives with their value lines,
\* each entry holds exactly the trimmed lines between its directive and the
\* next key line, and the value list of an entry that has been flushed
\* never changes.
C6_DirectiveValues ==
    /\ [](pc \in {"body", "done", "error"} /\ DirectiveBlocks =>
            TitlePage = DirectiveEntries(1))
    /\ [][DirectiveBlocks =>
            \A i \in 1..Len(title_page) :
                heap'[title_page[i].vals] = heap[title_page[i].vals]]_vars

\* C14: a line that starts with /* and ends with */, read while no block
\* comment is open, appends exactly one Boneyard element and leaves no
\* block comment open, so that the lines after it are not taken as comment
\* content.
C14_SingleLineBoneyard ==
    [][(/\ InBody /\ ~comment_block
        /\ Len(BodyLine) >= 4
        /\ startswith(BodyLine, <<"/", "*">>)
        /\ endswith(rstrip(BodyLine), <<"*", "/">>))
       => /\ Len(elements') = Len(elements) + 1
          /\ Last(elements').type = "Boneyard"
          /\ ~comment_block']_vars

\* the line that opened the block comment that is open: the nearest line
\* before the line in hand that starts with /*, 0 when there is none
OpenedAt ==
    IF \E j \in 1..(index + 1) : startswith(lines[j], <<"/", "*">>)
    THEN CHOOSE j \in 1..(index + 1) :
            /\ startswith(lines[j], <<"/", "*">>)
            /\ \A k \in (j+1)..(index + 1) : ~startswith(lines[k], <<"/", "*">>)
    ELSE 0

\* the lines between the opening line and the line in hand
Enclosed == SubSeq(lines, OpenedAt + 1, index + 1)

\* the lines ls one after the other
RECURSIVE Flatten(_)
Flatten(ls) == IF ls = <<>> THEN <<>> ELSE Head(ls) \o Flatten(Tail(ls))

\* t without its line breaks
NoBreaks(t) == SelectSeq(t, LAMBDA c : c # "\n")

\* C15: the */ line that closes an open block comment appends exactly one
\* Boneyard element whose text is the enclosed lines in source order
\* (whatever line breaks join them), and clears the comment state:
\* comment_block false, comment_text empty.
C15_MultiLineBoneyard ==
    [][(InBody /\ comment_block /\ Rule = "CloseComment" /\ OpenedAt > 0)
       => /\ Len(elements') = Len(elements) + 1
          /\ Last(elements').type = "Boneyard"
          /\ NoBreaks(Last(elements').text) = Flatten(Enclosed)
          /\ ~comment_block'
          /\ comment_text' = <<>>]_vars

\* re.search(r'#([^\n#]*?)#\s*$', s): where the #...# marker that ends s
\* starts, 0 when s does not end with one
MarkerStart(s) ==
    IF \E i \in 1..Len(s) : SceneNumClose(From(s, i)) > 0
    THEN CHOOSE i \in 1..Len(s) :
            /\ SceneNumClose(From(s, i)) > 0
            /\ \A h \in 1..(i-1) : SceneNumClose(From(s, h)) = 0
    ELSE 0

\* the text between the # characters of the marker that ends s
MarkerText(s) ==
    SubSeq(From(s, MarkerStart(s)), 2, SceneNumClose(From(s, MarkerStart(s))) - 1)

\* C16: a forced or implicit scene heading line that ends with a #...#
\* marker gives a Scene Heading whose scene_num is the text between the #
\* characters and whose text no longer ends with the marker; a heading
\* line without the marker gives a Scene Heading without scene_num.
C16_SceneNumber ==
    [][(InBody /\ Rule \in {"ForcedScene", "Scene"})
       => /\ Len(elements') = Len(elements) + 1
          /\ Last(elements').type = "Scene Heading"
          /\ IF MarkerStart(BodyLine) > 0
             THEN /\ Last(elements').scene_num = MarkerText(BodyLine)
                  /\ MarkerStart(Last(elements').text) = 0
             ELSE Last(elements').scene_num = None]_vars

\* the number of blank lines directly before line k of lines
RECURSIVE BlanksBefore(_)
BlanksBefore(k) ==
    IF k > 1 /\ lines[k - 1] = <<>> THEN 1 + BlanksBefore(k - 1) ELSE 0

\* C17: when a line is about to be classified outside a block comment,
\* nl_before is the number of blank lines directly before it; so it is 0
\* for a line that directly follows a non-blank line, a Synopsis or a
\* Comment line included.
C17_BlankRun ==
    (InBody /\ ~comment_block) => nl_before = BlanksBefore(index + 2)

\* C18: a line that starts with > and ends with < gives a centered Action
\* whose text is the text between them; any other line that reaches the >
\* rule gives a Transition whose text is that line without its leading >,
\* whatever the lines before it were.
C18_ForcedTransition ==
    [][(InBody /\ Rule = "Gt")
       => /\ pc' # "error"
          /\ Len(elements') = Len(elements) + 1
          /\ IF Len(BodyLine) > 1 /\ Last(BodyLine) = "<"
             THEN /\ Last(elements').type = "Action"
                  /\ Last(elements').centered
                  /\ Last(elements').text =
                        strip(SubSeq(BodyLine, 2, Len(BodyLine) - 1))
             ELSE /\ Last(elements').type = "Transition"
                  /\ strip(Last(elements').text) = strip(Tail(BodyLine))]_vars

\* the # markers of a section heading line, after its leading whitespace
Markers(s) == LeadCount(lstrip(s), "#")

\* C19: a section heading line appends a Section Heading whose
\* section_depth is the number of its # markers, at least 1, leading
\* whitespace not counted, and whose text is what follows the markers; a
\* line with nothing after its markers appends no element.  Every Section
\* Heading element has a section_depth of 1 or more.
C19_SectionDepth ==
    /\ [][(InBody /\ Rule = "Section")
          => IF From(lstrip(BodyLine), Markers(BodyLine) + 1) = <<>>
             THEN elements' = elements
             ELSE /\ Len(elements') = Len(elements) + 1
                  /\ Last(elements').type = "Section Heading"
                  /\ Last(elements').section_depth = Markers(BodyLine)
                  /\ Markers(BodyLine) >= 1
                  /\ Last(elements').text =
                        From(lstrip(BodyLine), Markers(BodyLine) + 1)]_vars
    /\ [](\A k \in 1..Len(elements) :
            elements[k].type = "Section Heading" => elements[k].section_depth >= 1)

\* a Character element is among the first n elements
CharacterBefore(n) == \E j \in 1..n : elements[j].type = "Character"

\* C20: during and after the body scan, indialog implies that nl_before
\* is 0 and that a Character element is in the element list; the lookups
\* of the last element in the dialogue branches never fail; and before
\* every Dialogue or Parenthetical element there is a Character element.
C20_DialogueState ==
    pc \in {"body", "done", "error"} =>
        /\ indialog => nl_before = 0 /\ CharacterBefore(Len(elements))
        /\ error # "IndexError"
        /\ \A k \in 1..Len(elements) :
              elements[k].type \in {"Dialogue", "Parenthetical"} =>
                  CharacterBefore(k - 1)

\* a dialogue is open after a cue, a parenthetical and dialogue lines
C20_Witness ==
    /\ pc = "body"
    /\ indialog
    /\ Last(elements).type = "Dialogue"
    /\ \E k \in 1..Len(elements) : elements[k].type = "Parenthetical"

-----------------------------------------------------------------------------
(* The properties checked of the estimator (under PageSpec).               *)

\* the Page Break elements with elements before and after them
InnerBreaks ==
    { k \in 2..(Len(fount) - 1) : fount[k].type = "Page Break" }

Before(k) == SubSeq(fount, 1, k - 1)
After(k) == SubSeq(fount, k + 1, Len(fount))

Count(els) == pagecount(els, lines_per_page, char_per_inch)

\* C7 as stated: the count of A, a Page Break, B is one more than the count
\* of A followed directly by B, and the lines left at the end of A count
\* for no page of B.
C7_Original ==
    ppc = "done" =>
        \A k \in InnerBreaks :
            /\ pages = Count(Before(k) \o After(k)) + 1
            /\ pages = Count(Before(k)) + 1 + Count(After(k))

\* C7 amended: the count of A, a Page Break, B is the count of A alone,
\* plus one, plus the count of B alone: the lines left at the end of A
\* count for no page of B; it is at most one more than the count of A
\* followed directly by B.
C7_BreakSeparates ==
    ppc = "done" =>
        \A k \in InnerBreaks :
            /\ pages = Count(Before(k)) + 1 + Count(After(k))
            /\ pages <= Count(Before(k) \o After(k)) + 1

\* a break whose removal leaves the count as it is: the lines left at the
\* end of A fill a page of B
C7_Witness ==
    /\ ppc = "done"
    /\ \E k \in InnerBreaks : pages = Count(Before(k) \o After(k))

\* the lines counted so far: those of the full pages and those on the page
LinesCounted(p, l) == p * lines_per_page + l

\* the pairs of kinds between which no separator line is counted
NoBreakPairs == { <<"Character", "Dialogue">>, <<"Character", "Parenthetical">>,
                  <<"Dialogue", "Parenthetical">>, <<"Parenthetical", "Dialogue">> }

\* C8: an element that is no Page Break adds its wrapped lines and one
\* separator line exactly when prev_kind is not empty and the pair of
\* prev_kind and its kind is none of the four no-break pairs; the first
\* element and the element after a Page Break add no separator.
C8_Separator ==
    [][(InPageLoop /\ Elem.type # "Page Break") =>
        /\ LinesCounted(pages', plines') - LinesCounted(pages, plines) =
              WrappedLines(Elem, char_per_inch) +
              (IF prevtype # "" /\ <<prevtype, Elem.type>> \notin NoBreakPairs
               THEN 1 ELSE 0)
        /\ (eindex = 0 \/ fount[eindex].type = "Page Break") =>
              LinesCounted(pages', plines') - LinesCounted(pages, plines) =
                WrappedLines(Elem, char_per_inch)]_vars

\* a Dialogue has been counted after a Character without a separator
C8_Witness ==
    /\ eindex = 2
    /\ fount[1].type = "Character"
    /\ fount[2].type = "Dialogue"
    /\ LinesCounted(pages, plines) =
         WrappedLines(fount[1], char_per_inch) + WrappedLines(fount[2], char_per_inch)

AtDefaults ==
    /\ lines_per_page = DefaultLinesPerPage
    /\ char_per_inch = DefaultCharPerInch
    /\ fount = ActionRun(Len(fount))

\* C9: at the default settings, 55 one-word Action elements give a count
\* of 1 and 56 give a count of 2.
C9_DefaultPages ==
    (ppc = "done" /\ AtDefaults) =>
        /\ Len(fount) = DefaultLinesPerPage => pages = 1
        /\ Len(fount) = DefaultLinesPerPage + 1 => pages = 2

\* the run of 56 has been counted
C9_Witness ==
    /\ ppc = "done"
    /\ AtDefaults
    /\ Len(fount) = DefaultLinesPerPage + 1
    /\ pages = 2

\* the separator line between an element of kind prev and the element e
SeparatorLines(prev, e) ==
    IF prev # "" /\ <<prev, e.type>> \notin NoBreakPairs THEN 1 ELSE 0

\* the Page Breaks of els, plus for every maximal run between them the
\* whole pages its lines fill; total is the lines of the run so far and
\* prev the kind of the element before ("" at the start of a run)
RECURSIVE PagesOfRuns(_, _, _)
PagesOfRuns(els, total, prev) ==
    IF els = <<>> THEN total \div lines_per_page
    ELSE IF Head(els).type = "Page Break"
    THEN total \div lines_per_page + 1 + PagesOfRuns(Tail(els), 0, "")
    ELSE PagesOfRuns(Tail(els),
            total + WrappedLines(Head(els), char_per_inch) +
                SeparatorLines(prev, Head(els)),
            Head(els).type)

\* C10: the count is the number of Page Breaks plus, for every maximal run
\* between them, the whole pages its lines fill, a remainder counting for
\* nothing; and after every element 0 <= lines_on_page < lines_per_page.
C10_WholePages ==
    /\ ppc \in {"loop", "done"} => 0 <= plines /\ plines < lines_per_page
    /\ ppc = "done" => pages = PagesOfRuns(fount, 0, "")

\* a run has left a remainder that is no page, after a page was filled
C10_Witness ==
    /\ ppc = "done"
    /\ plines > 0
    /\ pages > 0
    /\ \A k \in 1..Len(fount) : fount[k].type # "Page Break"

\* the display lines of the source lines ls, each wrapped by itself
RECURSIVE LinesApart(_, _)
LinesApart(ls, width) ==
    IF ls = <<>> THEN 0
    ELSE Len(splitlines(wrap(Head(ls), width))) + LinesApart(Tail(ls), width)

\* C13: the display lines the estimator adds for an element whose text
\* holds line breaks are the display lines of its source lines, each
\* wrapped by itself, added up (the separator line apart).
C13_LinesWrappedApart ==
    [][(InPageLoop /\ Elem.type # "Page Break") =>
        LinesCounted(pages', plines') - LinesCounted(pages, plines)
            - SeparatorLines(prevtype, Elem)
          = LinesApart(splitlines(Elem.text),
                       Width(EType(Elem), char_per_inch))]_vars

-----------------------------------------------------------------------------
(* The properties checked of the line wrapper (under WrapSpec).            *)

\* the display lines of the value wrap has returned
DisplayLines == splitlines(wout)

\* a line that holds one word only, longer than the width
OverWidthWord(line) ==
    Len(split(line)) = 1 /\ Len(split(line)[1]) > wwidth

C12_Idempotent ==
    wpc = "done" =>
        /\ wout = wrap(wtext, wwidth)
        /\ splitlines(wrap(wout, wwidth)) = DisplayLines

\* a text has been wrapped into several lines, the first of them empty
\* before a word longer than the width
C12_Witness ==
    /\ wpc = "done"
    /\ Len(DisplayLines) >= 3
    /\ DisplayLines[1] = <<>>
    /\ \E i \in 1..Len(DisplayLines) : Len(split(DisplayLines[i])) > 1

====
